---- MODULE Spec2Model ----
(***************************************************************************)
(* The adaptive iteration controller of InteractiveCSVAnalyzer             *)
(* (src/main.py): execute_with_automation and the helpers it calls.        *)
(* Texts are TLA+ strings; the string helpers below compute what the       *)
(* Python string methods compute on them.                                  *)
(***************************************************************************)
EXTENDS Integers, Sequences, FiniteSets, TLC

(***************************************************************************)
(* Python string methods used by the source.                               *)
(***************************************************************************)

\* str.lower() on one character (ASCII letters).
LowerChar(c) ==
    CASE c = "A" -> "a" [] c = "B" -> "b" [] c = "C" -> "c" [] c = "D" -> "d"
      [] c = "E" -> "e" [] c = "F" -> "f" [] c = "G" -> "g" [] c = "H" -> "h"
      [] c = "I" -> "i" [] c = "J" -> "j" [] c = "K" -> "k" [] c = "L" -> "l"
      [] c = "M" -> "m" [] c = "N" -> "n" [] c = "O" -> "o" [] c = "P" -> "p"
      [] c = "Q" -> "q" [] c = "R" -> "r" [] c = "S" -> "s" [] c = "T" -> "t"
      [] c = "U" -> "u" [] c = "V" -> "v" [] c = "W" -> "w" [] c = "X" -> "x"
      [] c = "Y" -> "y" [] c = "Z" -> "z" [] OTHER -> c

RECURSIVE Lower(_)
\* str.lower()
Lower(s) ==
    IF Len(s) <= 1 THEN LowerChar(s)
    ELSE Lower(SubSeq(s, 1, Len(s) \div 2)) \o Lower(SubSeq(s, Len(s) \div 2 + 1, Len(s)))

\* str.startswith(p)
StartsWith(s, p) == Len(p) <= Len(s) /\ SubSeq(s, 1, Len(p)) = p

\* p in s
Contains(s, p) ==
    \E i \in 1..(Len(s) - Len(p) + 1) : SubSeq(s, i, i + Len(p) - 1) = p

\* s.find(p, from), 0-based as in Python; -1 when absent.
Find(s, p, from) ==
    LET hits == {i \in (from + 1)..(Len(s) - Len(p) + 1) :
                    SubSeq(s, i, i + Len(p) - 1) = p}
    IN  IF hits = {} THEN -1
        ELSE (CHOOSE i \in hits : \A j \in hits : i <= j) - 1

IsSpace(c) == c \in {" ", "\n", "\t", "\r"}

\* str.strip()
Strip(s) ==
    LET keep == {i \in 1..Len(s) : ~IsSpace(SubSeq(s, i, i))}
    IN  IF keep = {} THEN ""
        ELSE SubSeq(s, CHOOSE i \in keep : \A j \in keep : i <= j,
                       CHOOSE i \in keep : \A j \in keep : i >= j)

RECURSIVE Replace(_, _)
\* s.replace(old, ''): every occurrence of old removed, left to right.
Replace(s, old) ==
    LET at == Find(s, old, 0)
    IN  IF at = -1 THEN s
        ELSE SubSeq(s, 1, at) \o Replace(SubSeq(s, at + Len(old) + 1, Len(s)), old)

RECURSIVE SplitLines(_)
\* s.split('\n')
SplitLines(s) ==
    LET at == Find(s, "\n", 0)
    IN  IF at = -1 THEN <<s>>
        ELSE <<SubSeq(s, 1, at)>> \o SplitLines(SubSeq(s, at + 2, Len(s)))

\* s[:n]
Prefix(s, n) == SubSeq(s, 1, IF n < Len(s) THEN n ELSE Len(s))

\* s[-n:], n > 0
Suffix(s, n) == SubSeq(s, IF n < Len(s) THEN Len(s) - n + 1 ELSE 1, Len(s))


(***************************************************************************)
(* State.  The fields of the analyzer object, the locals of                *)
(* execute_with_automation, and the control position inside its loop.      *)
(***************************************************************************)
VARIABLES
    sandbox,                 \* self.sandbox: 0 is None, k > 0 the k-th session created
    live,                    \* sessions created and not closed (remote side)
    uploads,                 \* uploads[k]: calls of files.write("data.csv", ...) on session k
    current_dataset_path,    \* self.current_dataset_path: TRUE when a path is known
    session_history,         \* self.session_history
    analysis_context,        \* self.analysis_context
    max_iterations,          \* parameter
    min_iterations,          \* parameter
    iteration,               \* local
    current_prompt,          \* local
    consecutive_failures,    \* local
    analysis_topics_covered, \* local
    sandbox_reset_count,     \* local
    ai_response,             \* local: <<>> is None, <<text>> a response
    completion_check,        \* local
    explanation,             \* local
    code,                    \* local
    logs,                    \* local: str(logs) of the last execution
    pc,                      \* position in execute_with_automation
    stop,                    \* which exit of the loop was taken
    summary,                 \* what _print_completion_summary printed, and the return value
    steps,                   \* calls made so far in the current pass of the loop
    model_before,            \* consecutive passes before this one whose model call failed
    model_now,               \* whether this pass's model call failed
    fatal_before,            \* consecutive passes before this one whose execution failed unrecoverably
    fatal_now,               \* whether this pass's execution failed unrecoverably
    runs,                    \* calls of execute_with_automation made in this session
    previous_run,            \* summary and exit of the call before this one
    context_call,            \* the last call of _update_context: the context before it and new_info
    service                  \* what the sandbox service and the file system do when called

vars == <<sandbox, live, uploads, current_dataset_path, session_history,
          analysis_context, max_iterations, min_iterations, iteration,
          current_prompt, consecutive_failures, analysis_topics_covered,
          sandbox_reset_count, ai_response, completion_check, explanation,
          code, logs, pc, stop, summary, steps, model_before, model_now,
          fatal_before, fatal_now, runs, previous_run, context_call,
          service>>

(***************************************************************************)
(* Fixed tables of the source.                                             *)
(***************************************************************************)

\* completion_signals, in list order
completion_signals ==
    << "analysis is complete", "comprehensive analysis", "analysis complete",
       "sufficient insights", "thorough analysis", "complete understanding",
       "analysis finished", "all aspects covered", "comprehensive coverage" >>

core_topics ==
    {"data_exploration", "correlations", "distributions", "visualization", "patterns"}

\* topic_mapping: topic -> keywords
topic_mapping ==
    [ data_exploration |-> {"shape", "structure", "overview", "basic", "exploration"},
      correlations     |-> {"correlation", "relationship", "association"},
      distributions    |-> {"distribution", "histogram", "spread", "density"},
      visualization    |-> {"plot", "chart", "graph", "visualiz"},
      patterns         |-> {"pattern", "trend", "outlier", "anomal"},
      statistics       |-> {"statistical", "summary", "mean", "median", "std"},
      target_analysis  |-> {"target", "prediction", "classification"},
      feature_analysis |-> {"feature", "variable", "column"} ]

\* The topic vocabulary: the keys of topic_mapping.
Topics == DOMAIN topic_mapping

\* all_topics of _generate_intelligent_prompt
all_topics ==
    {"data_exploration", "correlations", "distributions", "visualization",
     "patterns", "statistics", "target_analysis"}

\* The code fence of the response format.  A TLA+ string cannot hold a
\* backquote: the backquote character is written ~ in every text of this module.
Fence == "~~~"

FencePython == "~~~python"

\* code-like keywords of _parse_ai_response, method 3
code_keywords == {"import ", "df.", "plt.", "print(", "pandas"}

(***************************************************************************)
(* The environment: what the model service, the executor and the sandbox   *)
(* service can answer.                                                     *)
(***************************************************************************)

MaxIter == 4          \* largest max_iterations a run is started with
MaxRecoveries == 1    \* most unhealthy probes followed by a successful recovery

ReplyOverview ==
    "EXPLANATION: Basic summary of every column and the target.\n\nCODE:\n~~~python\nprint(df.describe())\n~~~"

ReplyPlots ==
    "EXPLANATION: Plot the correlation matrix and a histogram to spot outliers.\n\nCODE:\n~~~python\ndf.hist()\nplt.savefig('step_2.png')\n~~~"

ReplyDone == "The analysis is complete and comprehensive"

ReplySentinel == "All major aspects are covered. ANALYSIS_COMPLETE"

ReplyProse == "Let me think about the next step."

\* response.choices[0].message.content
ModelContents == {ReplyOverview, ReplyPlots, ReplyDone, ReplySentinel, ReplyProse, "  "}

\* chat_with_ai on the content the service returned: the sentinel replaces the text.
ChatResult(content) ==
    IF Contains(Strip(content), "ANALYSIS_COMPLETE") THEN "ANALYSIS_COMPLETE"
    ELSE Strip(content)

\* The texts chat_with_ai can return.
Replies == {ChatResult(content) : content \in ModelContents}

\* What sandbox.run_code does with the code of a step: it runs (logs, and one
\* result per figure the code saves), reports an error, or raises.
OutputRow == "mean  0.5  std  0.1\n"

OutputBlock == OutputRow \o OutputRow \o OutputRow \o OutputRow \o OutputRow

\* str(execution.logs) of a step that ran: what df.describe() prints, more
\* than 500 characters.
OutputText ==
    "count 5.0\n" \o OutputBlock \o OutputBlock \o OutputBlock
                 \o OutputBlock \o OutputBlock \o OutputBlock

ErrorTexts ==
    {"ValueError: could not convert string to float", "The sandbox was not found"}

\* Error texts of each pattern family of _handle_execution_error, in lower,
\* upper and mixed case, and texts of no family.
ClassifierTexts ==
    ErrorTexts \cup
    { "Sandbox Was Not Found",
      "Request TIMEOUT after 60s",
      "ImportError: cannot import name 'x'",
      "ModuleNotFoundError: No module named 'seaborn'",
      "FileNotFoundError: [Errno 2] No such file or directory: 'data.csv'",
      "File not found: data.csv",
      "FILE NOT FOUND",
      "KeyError: 'price'",
      "NameError: name 'modul' is not defined",
      "the file was not found",
      "" }

\* What sandbox.run_code can do when the classifier is examined on its own.
ClassifierOutcomes ==
    {[kind |-> "ok", text |-> OutputText]} \cup
    [kind : {"error", "raise"}, text : ClassifierTexts]

ExecOutcomes ==
    { [kind |-> "ok",    text |-> OutputText],
      [kind |-> "error", text |-> "ValueError: could not convert string to float"],
      [kind |-> "raise", text |-> "The sandbox was not found"] }

\* Code run by earlier commands of the session (handle_analyze_command and the
\* like), which a run finds in session_history.
CodeDescribe ==
    "import pandas as pd\ndf = pd.read_csv('data.csv')\nprint(df.shape)\nprint(df.dtypes)\nprint(df.head())\nprint(df.describe())"

CodeNulls ==
    "import pandas as pd\ndf = pd.read_csv('data.csv')\nprint(df.shape)\nprint(df.dtypes)\nprint(df.head())\nprint(df.isnull().sum())"

CodeCorr == "df.corr()"

\* CodeDescribe with one more line: 11 words shared with CodeDescribe and 11
\* with CodeNulls, which share 10 with each other.
CodeBoth == CodeDescribe \o "\nprint(df.isnull().sum())"

\* The words of CodeDescribe in other letter case and order, some twice.
CodeShout ==
    "Import Pandas As PD\nDF = pd.read_csv('data.csv')\nprint(df.describe())\nprint(df.head())\nprint(df.dtypes)\nprint(df.shape)\nprint(df.shape)"

EarlierCodes == {CodeDescribe, CodeNulls, CodeCorr, CodeBoth, CodeShout}

\* What the no-op execution of the health probe does.
ProbeOutcomes ==
    { [kind |-> "ok",    text |-> ""],
      [kind |-> "error", text |-> "NameError"],
      [kind |-> "raise", text |-> "The sandbox was not found"],
      [kind |-> "raise", text |-> "Sandbox was not found"],
      [kind |-> "raise", text |-> "Request Timeout"],
      [kind |-> "raise", text |-> "timeout"],
      [kind |-> "raise", text |-> "Connection reset by peer"],
      [kind |-> "raise", text |-> ""] }

\* What the local file system and the sandbox do on the re-upload: both
\* succeed, files.write raises, or open(file_path) raises before it.
UploadOutcomes == {"ok", "write_fails", "open_fails"}

\* In a run every call of the service draws its outcome afresh.
AnyService ==
    [fixed |-> FALSE, probe |-> [kind |-> "ok", text |-> ""],
     close_ok |-> TRUE, create_ok |-> TRUE, upload |-> "ok",
     exec |-> [kind |-> "ok", text |-> OutputText]]

\* The service with one behaviour fixed for each of its calls.
FixedServices ==
    [fixed : {TRUE}, probe : ProbeOutcomes, close_ok : BOOLEAN,
     create_ok : BOOLEAN, upload : UploadOutcomes,
     exec : {[kind |-> "ok", text |-> OutputText]}]

\* The service with the outcome of the execution of a step fixed.
ClassifierServices ==
    [fixed : {TRUE}, probe : {[kind |-> "ok", text |-> ""]}, close_ok : {TRUE},
     create_ok : {TRUE}, upload : {"ok"}, exec : ClassifierOutcomes]

ProbeChoices == IF service.fixed THEN {service.probe} ELSE ProbeOutcomes

CloseChoices == IF service.fixed THEN {service.close_ok} ELSE BOOLEAN

CreateChoices == IF service.fixed THEN {service.create_ok} ELSE BOOLEAN

UploadChoices == IF service.fixed THEN {service.upload} ELSE UploadOutcomes

ExecChoices == IF service.fixed THEN {service.exec} ELSE ExecOutcomes

(***************************************************************************)
(* Helpers of the controller, as operators.                                *)
(***************************************************************************)

\* The texts below are evaluated once per text of the environment and kept in
\* tables (signal_found, parsed, topics_found, words_of, recoverable): an action
\* looks a text up instead of scanning it again.

\* for signal in completion_signals: if signal in response_lower: the first
\* signal, in list order, that response.lower() contains; "" when there is none.
SignalOf(response) ==
    LET response_lower == Lower(response)
        matched == {k \in DOMAIN completion_signals :
                       Contains(response_lower, completion_signals[k])}
    IN  IF matched = {} THEN ""
        ELSE completion_signals[CHOOSE k \in matched : \A j \in matched : k <= j]

\* A phrase in other letter case, as a model may write it.
ReplyShout == "Analysis Complete: every question is answered"

OracleTexts == Replies \cup {ReplyShout}

signal_found == [r \in OracleTexts |-> SignalOf(r)]

RECURSIVE ParseLines(_, _, _, _, _)
\* The loop of method 1 over lines[i..]: (explanation, code, in_code_block).
ParseLines(lines, i, expl, cd, in_code_block) ==
    IF i > Len(lines) THEN <<expl, Strip(cd)>>
    ELSE LET line == lines[i]
         IN  IF StartsWith(line, "EXPLANATION:")
             THEN ParseLines(lines, i + 1, Strip(Replace(line, "EXPLANATION:")), cd, in_code_block)
             ELSE IF StartsWith(line, "CODE:")
             THEN ParseLines(lines, i + 1, expl, cd, in_code_block)
             ELSE IF StartsWith(Strip(line), FencePython)
             THEN ParseLines(lines, i + 1, expl, cd, TRUE)
             ELSE IF Strip(line) = Fence /\ in_code_block
             THEN ParseLines(lines, i + 1, expl, cd, FALSE)
             ELSE IF in_code_block
             THEN ParseLines(lines, i + 1, expl, cd \o line \o "\n", in_code_block)
             ELSE ParseLines(lines, i + 1, expl, cd, in_code_block)

\* The parser with its last method returning the text as code.
ParseFallbackAsCode(response) ==
    IF Contains(response, "EXPLANATION:")
    THEN ParseLines(SplitLines(Strip(response)), 1, "", "", FALSE)
    ELSE IF Contains(response, FencePython)
    THEN LET code_start == Find(response, FencePython, 0)
             expl == IF code_start > 0
                     THEN Strip(Replace(Strip(SubSeq(response, 1, code_start)), "EXPLANATION:"))
                     ELSE ""
             code_start_content == code_start + 9
             code_end == Find(response, Fence, code_start_content)
             cd == IF code_end # -1
                   THEN Strip(SubSeq(response, code_start_content + 1, code_end))
                   ELSE ""
         IN  <<expl, cd>>
    ELSE <<"", Strip(response)>>

\* _parse_ai_response: <<explanation, code>>
_parse_ai_response(response) ==
    IF Contains(response, "EXPLANATION:")
    THEN ParseLines(SplitLines(Strip(response)), 1, "", "", FALSE)
    ELSE IF Contains(response, FencePython)
    THEN LET code_start == Find(response, FencePython, 0)
             expl == IF code_start > 0
                     THEN Strip(Replace(Strip(SubSeq(response, 1, code_start)), "EXPLANATION:"))
                     ELSE ""
             code_start_content == code_start + 9
             code_end == Find(response, Fence, code_start_content)
             cd == IF code_end # -1
                   THEN Strip(SubSeq(response, code_start_content + 1, code_end))
                   ELSE ""
         IN  <<expl, cd>>
    ELSE IF \E keyword \in code_keywords : Contains(response, keyword)
    THEN <<"", Strip(response)>>
    ELSE <<Strip(response), "">>

\* Explanations and codes a model may put in the response format: on one
\* line and on several.
ExplanationParts ==
    { "Look at the shape of the data.",
      "First the shape of the data.\nThen a histogram of every column." }

CodeParts ==
    { "print(df.shape)",
      "import pandas as pd\ndf = pd.read_csv('data.csv')\nprint(df.head())" }

LabeledCases == [expl : ExplanationParts, code : CodeParts]

\* The response format of the system prompt filled with an explanation and a code.
Labeled(c) == "EXPLANATION: " \o c.expl \o "\n\nCODE:\n~~~python\n" \o c.code \o "\n~~~"

\* Responses in other shapes: a fence without label, a fence never closed, a
\* fence without language, bare code, prose, a label without fence, a label
\* inside a line.
UnlabeledTexts ==
    { "Here is the plot.\n~~~python\ndf.hist()\n~~~",
      "~~~python\nprint(1)\n~~~",
      "Next the histogram.\n~~~python\ndf.hist()",
      "Run this:\n~~~\nx = 1\n~~~",
      "import pandas as pd\nprint(df.head())",
      "I will use pandas for this.",
      "IMPORT PANDAS",
      "  The data has no more to tell.  ",
      "EXPLANATION: Nothing more to run.",
      "EXPLANATION: import pandas and call df.head()",
      "Sure. EXPLANATION: the shape first.\n~~~python\nprint(df.shape)\n~~~" }

\* The responses _parse_ai_response is examined on.
ParserTexts == Replies \cup {Labeled(c) : c \in LabeledCases} \cup UnlabeledTexts

parsed == [r \in ParserTexts |-> _parse_ai_response(r)]

\* The explanations and the codes the replies parse to.
Explanations == {parsed[r][1] : r \in Replies}

Codes == {parsed[r][2] : r \in Replies} \ {""}

\* The topics _track_analysis_topics adds for an explanation.
TopicsOf(text) ==
    LET explanation_lower == Lower(text)
    IN  {t \in Topics : \E keyword \in topic_mapping[t] : Contains(explanation_lower, keyword)}

\* An explanation in other letter case, as a model may write it.
ExplanationShout == "HISTOGRAM of each Feature"

TrackerTexts == Explanations \cup {ExplanationShout}

topics_found ==
    [e \in TrackerTexts \cup {parsed[r][1] : r \in ParserTexts} |-> TopicsOf(e)]

\* The tracker replacing the set by the topics of the text.
TrackReplaces(text, topics_covered) == topics_found[text]

\* The tracker removing the topics of the text that are already covered.
TrackToggles(text, topics_covered) ==
    (topics_covered \ topics_found[text]) \cup (topics_found[text] \ topics_covered)

\* _track_analysis_topics(explanation, topics_covered): the set after the call.
_track_analysis_topics(text, topics_covered) == topics_covered \cup topics_found[text]

\* set(code.lower().split())
Words(s) ==
    LET n == Len(s)
        NonSpace(i) == ~IsSpace(SubSeq(s, i, i))
        starts == {i \in 1..n : NonSpace(i) /\ (i = 1 \/ ~NonSpace(i - 1))}
        EndOf(i) == CHOOSE j \in i..n :
                       /\ \A k \in i..j : NonSpace(k)
                       /\ (j = n \/ ~NonSpace(j + 1))
    IN  {SubSeq(s, i, EndOf(i)) : i \in starts}

\* Codes a history can hold: those of the replies, and those of earlier commands
\* of the session.
HistoryCodes == Codes \cup EarlierCodes

words_of == [c \in HistoryCodes |-> Words(Lower(c))]

\* session_history[-3:]
LastThree(h) == SubSeq(h, IF Len(h) > 3 THEN Len(h) - 2 ELSE 1, Len(h))

\* similar_count of recent_analyses[i]: the later entries sharing more than 10 words
SimilarCount(recent, i) ==
    Cardinality({j \in (i + 1)..Len(recent) :
        Cardinality(words_of[recent[i].code] \cap words_of[recent[j].code]) > 10})

\* The detector asking for 3 records only.
DetectFromThree ==
    IF Len(session_history) < 3 THEN FALSE
    ELSE LET recent == LastThree(session_history)
         IN  \E i \in 1..Len(recent) : SimilarCount(recent, i) >= 2

\* _detect_repetitive_analysis(): reads self.session_history.
_detect_repetitive_analysis ==
    IF Len(session_history) < 4 THEN FALSE
    ELSE LET recent == LastThree(session_history)
         IN  \E i \in 1..Len(recent) : SimilarCount(recent, i) >= 2

\* The verdicts of the oracle.
StopOnSignal(signal) ==
    [should_stop |-> TRUE,
     reason |-> "AI indicated completion with signal: '" \o signal \o "'"]

StillInMinimumPhase ==
    [should_stop |-> FALSE, reason |-> "Still in minimum iteration phase"]

StopOnCoverage(covered_core) ==
    [should_stop |-> TRUE,
     reason |-> "Comprehensive coverage achieved: "
                \o ToString(Cardinality(covered_core)) \o " core topics covered"]

StopOnRepetition ==
    [should_stop |-> TRUE,
     reason |-> "Analysis becoming repetitive - comprehensive insights achieved"]

ShouldContinue == [should_stop |-> FALSE, reason |-> "Analysis should continue"]

\* The oracle with the minimum-iteration test ahead of the phrase test.
CompletionMinimumFirst(response, iter, min_iter, topics_covered) ==
    LET signal == signal_found[response]
        covered_core == core_topics \cap topics_covered
    IN  IF iter < min_iter THEN StillInMinimumPhase
        ELSE IF signal # "" THEN StopOnSignal(signal)
        ELSE IF Cardinality(covered_core) >= 4 /\ iter >= 5 THEN StopOnCoverage(covered_core)
        ELSE IF iter > 8 /\ _detect_repetitive_analysis THEN StopOnRepetition
        ELSE ShouldContinue

\* The oracle with the coverage test ahead of the minimum-iteration test.
CompletionCoverageFirst(response, iter, min_iter, topics_covered) ==
    LET signal == signal_found[response]
        covered_core == core_topics \cap topics_covered
    IN  IF signal # "" THEN StopOnSignal(signal)
        ELSE IF Cardinality(covered_core) >= 4 /\ iter >= 5 THEN StopOnCoverage(covered_core)
        ELSE IF iter < min_iter THEN StillInMinimumPhase
        ELSE IF iter > 8 /\ _detect_repetitive_analysis THEN StopOnRepetition
        ELSE ShouldContinue

\* The oracle asking for all five core topics.
CompletionAllCore(response, iter, min_iter, topics_covered) ==
    LET signal == signal_found[response]
        covered_core == core_topics \cap topics_covered
    IN  IF signal # "" THEN StopOnSignal(signal)
        ELSE IF iter < min_iter THEN StillInMinimumPhase
        ELSE IF Cardinality(covered_core) >= 5 /\ iter >= 5 THEN StopOnCoverage(covered_core)
        ELSE IF iter > 8 /\ _detect_repetitive_analysis THEN StopOnRepetition
        ELSE ShouldContinue

\* The oracle stopping at the fifth pass whatever the coverage.
CompletionWithoutCoverage(response, iter, min_iter, topics_covered) ==
    LET signal == signal_found[response]
        covered_core == core_topics \cap topics_covered
    IN  IF signal # "" THEN StopOnSignal(signal)
        ELSE IF iter < min_iter THEN StillInMinimumPhase
        ELSE IF iter >= 5 THEN StopOnCoverage(covered_core)
        ELSE IF iter > 8 /\ _detect_repetitive_analysis THEN StopOnRepetition
        ELSE ShouldContinue

\* _check_analysis_completion(ai_response, iteration, min_iterations,
\* topics_covered): (should_stop, reason).
_check_analysis_completion(response, iter, min_iter, topics_covered) ==
    LET signal == signal_found[response]
        covered_core == core_topics \cap topics_covered
    IN  IF signal # "" THEN StopOnSignal(signal)
        ELSE IF iter < min_iter THEN StillInMinimumPhase
        ELSE IF Cardinality(covered_core) >= 4 /\ iter >= 5 THEN StopOnCoverage(covered_core)
        ELSE IF iter > 8 /\ _detect_repetitive_analysis THEN StopOnRepetition
        ELSE ShouldContinue

\* The classifier matching the error text as it is, not lower-cased.
HandleWithoutLowering(error_logs) ==
    \/ Contains(error_logs, "sandbox was not found") \/ Contains(error_logs, "timeout")
    \/ Contains(error_logs, "import") \/ Contains(error_logs, "module")
    \/ Contains(error_logs, "file not found") \/ Contains(error_logs, "no such file")

\* _handle_execution_error: TRUE when the error is classified recoverable.
_handle_execution_error(error_logs) ==
    LET error_str == Lower(error_logs)
    IN  \/ Contains(error_str, "sandbox was not found") \/ Contains(error_str, "timeout")
        \/ Contains(error_str, "import") \/ Contains(error_str, "module")
        \/ Contains(error_str, "file not found") \/ Contains(error_str, "no such file")

recoverable == [t \in ClassifierTexts |-> _handle_execution_error(t)]

\* _check_sandbox_health on the outcome of the no-op execution.
ProbeResult(probe) ==
    IF probe.kind = "ok" THEN TRUE
    ELSE IF probe.kind = "error" THEN FALSE
    ELSE IF Contains(probe.text, "sandbox was not found")
            \/ Contains(Lower(probe.text), "timeout")
    THEN FALSE
    ELSE TRUE

probe_result == [p \in ProbeOutcomes |-> ProbeResult(p)]

_check_sandbox_health(probe) == IF sandbox = 0 THEN FALSE ELSE probe_result[probe]

\* The quality line of _print_completion_summary.
Quality(topics_covered) ==
    IF Cardinality(topics_covered) >= 4 THEN "Comprehensive" ELSE "Partial"

\* What _print_completion_summary prints.
_print_completion_summary(iter, topics_covered, sandbox_resets) ==
    [ total_steps    |-> iter,
      topics         |-> topics_covered,
      visualizations |-> Cardinality({k \in DOMAIN session_history :
                                         session_history[k].results_count > 0}),
      recoveries     |-> sandbox_resets,
      quality        |-> Quality(topics_covered) ]

NoCheck == [should_stop |-> FALSE, reason |-> ""]

NoSummary == [total_steps |-> -1]

NoRun == [summary |-> NoSummary, stop |-> "none"]

NoContextCall == [before |-> "", new_info |-> "", made |-> FALSE]

(***************************************************************************)
(* Init: the analyzer after create_sandbox and upload_dataset, at the call *)
(* of execute_with_automation(initial_prompt, max_iterations,              *)
(* min_iterations), lines 234-238 done.                                    *)
(***************************************************************************)
InitWith(maxima, minima) ==
    /\ sandbox = 1
    /\ live = {1}
    /\ uploads = <<1>>
    /\ current_dataset_path = TRUE
    /\ session_history = <<>>
    /\ analysis_context = ""
    /\ max_iterations \in maxima
    /\ min_iterations \in minima
    /\ iteration = 0
    /\ current_prompt = [kind |-> "initial"]
    /\ consecutive_failures = 0
    /\ analysis_topics_covered = {}
    /\ sandbox_reset_count = 0
    /\ ai_response = <<>>
    /\ completion_check = NoCheck
    /\ explanation = ""
    /\ code = ""
    /\ logs = ""
    /\ pc = "loop"
    /\ stop = "none"
    /\ summary = NoSummary
    /\ steps = <<>>
    /\ model_before = 0
    /\ model_now = FALSE
    /\ fatal_before = 0
    /\ fatal_now = FALSE
    /\ runs = 1
    /\ previous_run = NoRun
    /\ context_call = NoContextCall
    /\ service = AnyService

Init == InitWith(0..MaxIter, {3})

(***************************************************************************)
(* execute_with_automation, one action per step of its loop.               *)
(***************************************************************************)

\* What a pass leaves alone unless it says otherwise.
SessionUnchanged == UNCHANGED <<sandbox, live, uploads, current_dataset_path>>

ParamsUnchanged ==
    UNCHANGED <<max_iterations, min_iterations, runs, previous_run, service>>

ContextUnchanged == UNCHANGED <<analysis_context, context_call>>

\* The head of the loop under the test `again`: the next pass starts, or the
\* loop ends.
LoopWhile(again) ==
    /\ pc = "loop"
    /\ IF again
       THEN /\ iteration' = iteration + 1
            /\ pc' = "health"
            /\ stop' = stop
       ELSE /\ iteration' = iteration
            /\ pc' = "summary"
            /\ stop' = "ceiling"
    /\ steps' = <<>>
    /\ ai_response' = <<>>
    /\ completion_check' = NoCheck
    /\ explanation' = ""
    /\ code' = ""
    /\ logs' = ""
    /\ model_before' = (IF model_now THEN model_before + 1 ELSE 0)
    /\ model_now' = FALSE
    /\ fatal_before' = (IF fatal_now THEN fatal_before + 1 ELSE 0)
    /\ fatal_now' = FALSE
    /\ SessionUnchanged /\ ParamsUnchanged /\ ContextUnchanged
    /\ UNCHANGED <<session_history, current_prompt,
                   consecutive_failures, analysis_topics_covered,
                   sandbox_reset_count, summary>>

\* The loop with its test off by one.
LoopOffByOne == LoopWhile(iteration <= max_iterations)

\* while iteration < max_iterations: iteration += 1
Loop == LoopWhile(iteration < max_iterations)

\* if not self._check_sandbox_health(): ...
CheckHealth ==
    /\ pc = "health"
    /\ \E probe \in ProbeChoices :
          IF _check_sandbox_health(probe)
          THEN pc' = "generate" /\ steps' = Append(steps, "probe_healthy")
          ELSE pc' = "recover" /\ steps' = Append(steps, "probe_unhealthy")
    /\ SessionUnchanged /\ ParamsUnchanged /\ ContextUnchanged
    /\ UNCHANGED <<session_history, iteration, current_prompt,
                   consecutive_failures, analysis_topics_covered,
                   sandbox_reset_count, ai_response, completion_check,
                   explanation, code, logs, stop, summary,
                   model_before, model_now, fatal_before, fatal_now>>

\* The recovery branch without the break after a failed recovery.
RecoverContinues ==
    /\ pc = "recover"
    /\ \E close_ok \in CloseChoices, create_ok \in CreateChoices,
          upload \in UploadChoices :
          LET closed == IF sandbox # 0 /\ close_ok THEN live \ {sandbox} ELSE live
              fresh  == Len(uploads) + 1
          IN  IF create_ok
              THEN /\ sandbox_reset_count < MaxRecoveries
                   /\ sandbox' = fresh
                   /\ live' = closed \cup {fresh}
                   /\ uploads' = Append(uploads,
                          IF current_dataset_path /\ upload # "open_fails" THEN 1 ELSE 0)
                   /\ sandbox_reset_count' = sandbox_reset_count + 1
                   /\ pc' = "generate"
                   /\ stop' = stop
                   /\ steps' = Append(steps, "recover_ok")
              ELSE /\ sandbox' = sandbox
                   /\ live' = closed
                   /\ uploads' = uploads
                   /\ sandbox_reset_count' = sandbox_reset_count
                   /\ pc' = "generate"
                   /\ stop' = stop
                   /\ steps' = Append(steps, "recover_failed")
    /\ ParamsUnchanged /\ ContextUnchanged
    /\ UNCHANGED <<current_dataset_path, session_history, iteration, current_prompt, consecutive_failures,
                   analysis_topics_covered, ai_response, completion_check,
                   explanation, code, logs, summary,
                   model_before, model_now, fatal_before, fatal_now>>

\* The recovery reporting failure when the re-upload fails.
RecoverFailsOnUpload ==
    /\ pc = "recover"
    /\ \E close_ok \in CloseChoices, create_ok \in CreateChoices,
          upload \in UploadChoices :
          LET closed == IF sandbox # 0 /\ close_ok THEN live \ {sandbox} ELSE live
              fresh  == Len(uploads) + 1
          IN  IF create_ok /\ upload = "ok"
              THEN /\ sandbox_reset_count < MaxRecoveries
                   /\ sandbox' = fresh
                   /\ live' = closed \cup {fresh}
                   /\ uploads' = Append(uploads,
                          IF current_dataset_path /\ upload # "open_fails" THEN 1 ELSE 0)
                   /\ sandbox_reset_count' = sandbox_reset_count + 1
                   /\ pc' = "generate"
                   /\ stop' = stop
                   /\ steps' = Append(steps, "recover_ok")
              ELSE /\ sandbox' = sandbox
                   /\ live' = closed
                   /\ uploads' = uploads
                   /\ sandbox_reset_count' = sandbox_reset_count
                   /\ pc' = "summary"
                   /\ stop' = "health"
                   /\ steps' = Append(steps, "recover_failed")
    /\ ParamsUnchanged /\ ContextUnchanged
    /\ UNCHANGED <<current_dataset_path, session_history, iteration, current_prompt, consecutive_failures,
                   analysis_topics_covered, ai_response, completion_check,
                   explanation, code, logs, summary,
                   model_before, model_now, fatal_before, fatal_now>>

\* self._reinitialize_sandbox() and the branch on its result.  close_ok,
\* create_ok and upload are what the sandbox service and the file system do.
Recover ==
    /\ pc = "recover"
    /\ \E close_ok \in CloseChoices, create_ok \in CreateChoices,
          upload \in UploadChoices :
          LET closed == IF sandbox # 0 /\ close_ok THEN live \ {sandbox} ELSE live
              fresh  == Len(uploads) + 1
          IN  IF create_ok
              THEN /\ sandbox_reset_count < MaxRecoveries
                   /\ sandbox' = fresh
                   /\ live' = closed \cup {fresh}
                   /\ uploads' = Append(uploads,
                          IF current_dataset_path /\ upload # "open_fails" THEN 1 ELSE 0)
                   /\ sandbox_reset_count' = sandbox_reset_count + 1
                   /\ pc' = "generate"
                   /\ stop' = stop
                   /\ steps' = Append(steps, "recover_ok")
              ELSE /\ sandbox' = sandbox
                   /\ live' = closed
                   /\ uploads' = uploads
                   /\ sandbox_reset_count' = sandbox_reset_count
                   /\ pc' = "summary"
                   /\ stop' = "health"
                   /\ steps' = Append(steps, "recover_failed")
    /\ ParamsUnchanged /\ ContextUnchanged
    /\ UNCHANGED <<current_dataset_path, session_history, iteration, current_prompt, consecutive_failures,
                   analysis_topics_covered, ai_response, completion_check,
                   explanation, code, logs, summary,
                   model_before, model_now, fatal_before, fatal_now>>

\* not ai_response
Falsy(r) == r = <<>> \/ r[1] = ""

\* ai_response = self.chat_with_ai(...) and the branch on its result.
Generate ==
    /\ pc = "generate"
    /\ \E r \in {<<>>} \cup {<<reply>> : reply \in Replies} :
          /\ ai_response' = r
          /\ IF Falsy(r)
             THEN /\ consecutive_failures' = consecutive_failures + 1
                  /\ model_now' = TRUE
                  /\ IF consecutive_failures + 1 >= 3
                     THEN pc' = "summary" /\ stop' = "model"
                     ELSE pc' = "loop" /\ stop' = stop
             ELSE /\ consecutive_failures' = 0
                  /\ model_now' = FALSE
                  /\ pc' = "decide"
                  /\ stop' = stop
    /\ steps' = Append(steps, "model")
    /\ SessionUnchanged /\ ParamsUnchanged /\ ContextUnchanged
    /\ UNCHANGED <<session_history, iteration, current_prompt,
                   analysis_topics_covered, sandbox_reset_count,
                   completion_check, explanation, code, logs, summary,
                   model_before, fatal_before, fatal_now>>

\* completion_check = self._check_analysis_completion(...) and the branch on it.
Decide ==
    /\ pc = "decide"
    /\ completion_check' = _check_analysis_completion(
           ai_response[1], iteration, min_iterations, analysis_topics_covered)
    /\ IF completion_check'.should_stop
       THEN pc' = "summary" /\ stop' = "oracle"
       ELSE pc' = "parse" /\ stop' = stop
    /\ steps' = Append(steps, "oracle")
    /\ SessionUnchanged /\ ParamsUnchanged /\ ContextUnchanged
    /\ UNCHANGED <<session_history, iteration, current_prompt,
                   consecutive_failures, analysis_topics_covered,
                   sandbox_reset_count, ai_response, explanation, code, logs,
                   summary, model_before, model_now, fatal_before, fatal_now>>

NeedCodePrompt == [kind |-> "need_code"]

\* The parsing step counting a response without code as a failure.
ParseCountsMissingCode ==
    /\ pc = "parse"
    /\ LET result == parsed[ai_response[1]]
       IN  /\ explanation' = result[1]
           /\ code' = result[2]
           /\ analysis_topics_covered' =
                 (IF result[1] # ""
                  THEN _track_analysis_topics(result[1], analysis_topics_covered)
                  ELSE analysis_topics_covered)
           /\ steps' = steps \o (IF result[1] # "" THEN <<"parse", "track">> ELSE <<"parse">>)
           /\ IF result[2] = ""
              THEN current_prompt' = NeedCodePrompt /\ pc' = "loop"
              ELSE current_prompt' = current_prompt /\ pc' = "execute"
    /\ SessionUnchanged /\ ParamsUnchanged /\ ContextUnchanged
    /\ consecutive_failures' =
          (IF parsed[ai_response[1]][2] = "" THEN consecutive_failures + 1
           ELSE consecutive_failures)
    /\ UNCHANGED <<session_history, iteration,
                   sandbox_reset_count, ai_response,
                   completion_check, logs, stop, summary,
                   model_before, model_now, fatal_before, fatal_now>>

\* explanation, code = self._parse_ai_response(ai_response); topic tracking;
\* the branch on missing code.
Parse ==
    /\ pc = "parse"
    /\ LET result == parsed[ai_response[1]]
       IN  /\ explanation' = result[1]
           /\ code' = result[2]
           /\ analysis_topics_covered' =
                 (IF result[1] # ""
                  THEN _track_analysis_topics(result[1], analysis_topics_covered)
                  ELSE analysis_topics_covered)
           /\ steps' = steps \o (IF result[1] # "" THEN <<"parse", "track">> ELSE <<"parse">>)
           /\ IF result[2] = ""
              THEN current_prompt' = NeedCodePrompt /\ pc' = "loop"
              ELSE current_prompt' = current_prompt /\ pc' = "execute"
    /\ SessionUnchanged /\ ParamsUnchanged /\ ContextUnchanged
    /\ UNCHANGED <<session_history, iteration,
                   consecutive_failures, sandbox_reset_count, ai_response,
                   completion_check, logs, stop, summary,
                   model_before, model_now, fatal_before, fatal_now>>

\* len(execution.results): one result per figure the code saves.
ResultsOf(cd) == IF Contains(cd, "savefig") THEN 1 ELSE 0

results_of == [c \in HistoryCodes |-> ResultsOf(c)]

\* execute_code(code) on what the sandbox does with it: <<success, str(logs)>>
\* and the history after it.
execute_code(cd, outcome) ==
    IF outcome.kind = "ok"
    THEN [success |-> TRUE, logs |-> outcome.text,
          history |-> Append(session_history,
                         [code |-> cd, logs |-> outcome.text, success |-> TRUE,
                          results_count |-> results_of[cd]])]
    ELSE [success |-> FALSE, logs |-> outcome.text, history |-> session_history]

\* success, logs = self.execute_code(code); the error handling after it.
Execute ==
    /\ pc = "execute"
    /\ \E outcome \in ExecChoices :
          LET ran == execute_code(code, outcome)
              unhandled == ~ran.success /\ ~recoverable[ran.logs]
          IN  /\ session_history' = ran.history
              /\ logs' = ran.logs
              /\ steps' = steps \o (IF ran.success THEN <<"exec">> ELSE <<"exec", "classify">>)
              /\ fatal_now' = unhandled
              /\ consecutive_failures' =
                    (IF unhandled THEN consecutive_failures + 1 ELSE consecutive_failures)
              /\ IF unhandled /\ consecutive_failures + 1 >= 2
                 THEN pc' = "summary" /\ stop' = "exec"
                 ELSE pc' = "update" /\ stop' = stop
    /\ SessionUnchanged /\ ParamsUnchanged /\ ContextUnchanged
    /\ UNCHANGED <<iteration, current_prompt,
                   analysis_topics_covered, sandbox_reset_count, ai_response,
                   completion_check, explanation, code, summary,
                   model_before, model_now, fatal_before>>

\* The context trimmed to its first 1500 characters.
UpdateContextKeepsHead(context, new_info) ==
    LET grown == context \o "\n" \o new_info
    IN  IF Len(grown) > 2000 THEN Prefix(grown, 1500) ELSE grown

\* _update_context(new_info): the context after the call.
_update_context(context, new_info) ==
    LET grown == context \o "\n" \o new_info
    IN  IF Len(grown) > 2000 THEN Suffix(grown, 1500) ELSE grown

\* The record of a call of _update_context.
ContextCall(context, new_info) ==
    [before |-> context, new_info |-> new_info, made |-> TRUE]

\* The result summary without the cut at 500 characters.
ResultSummaryWhole(lg) == IF lg # "" THEN lg ELSE "No output"

\* str(logs)[:500] if logs else "No output"
ResultSummary(lg) == IF lg # "" THEN Prefix(lg, 500) ELSE "No output"

\* _generate_intelligent_prompt(iteration, logs, topics_covered): the fields
\* the template interpolates.
_generate_intelligent_prompt(iter, lg, topics_covered) ==
    [ kind      |-> "next",
      step      |-> iter + 1,
      results   |-> IF lg # "" THEN Prefix(lg, 400) ELSE "No output",
      context   |-> IF analysis_context' # "" THEN Suffix(analysis_context', 800)
                    ELSE "Starting analysis",
      completed |-> topics_covered,
      remaining |-> all_topics \ topics_covered ]

\* Lines 304-315: context update and the prompt of the next pass.
Update ==
    /\ pc = "update"
    /\ LET new_info == "Step " \o ToString(iteration) \o ": " \o ResultSummary(logs)
       IN  /\ analysis_context' = _update_context(analysis_context, new_info)
           /\ context_call' = ContextCall(analysis_context, new_info)
    /\ current_prompt' = _generate_intelligent_prompt(iteration, logs, analysis_topics_covered)
    /\ steps' = steps \o <<"context", "prompt">>
    /\ pc' = "loop"
    /\ SessionUnchanged /\ ParamsUnchanged
    /\ UNCHANGED <<session_history, iteration, consecutive_failures,
                   analysis_topics_covered, sandbox_reset_count, ai_response,
                   completion_check, explanation, code, logs, stop, summary,
                   model_before, model_now, fatal_before, fatal_now>>

\* Lines 317-320: the summary and the return value.
Summarize ==
    /\ pc = "summary"
    /\ summary' = _print_completion_summary(iteration, analysis_topics_covered,
                                            sandbox_reset_count)
    /\ pc' = "done"
    /\ SessionUnchanged /\ ParamsUnchanged /\ ContextUnchanged
    /\ UNCHANGED <<session_history, iteration, current_prompt,
                   consecutive_failures, analysis_topics_covered,
                   sandbox_reset_count, ai_response, completion_check,
                   explanation, code, logs, stop, steps,
                   model_before, model_now, fatal_before, fatal_now>>

Next ==
    \/ Loop
    \/ CheckHealth
    \/ Recover
    \/ Generate
    \/ Decide
    \/ Parse
    \/ Execute
    \/ Update
    \/ Summarize

Spec == Init /\ [][Next]_vars

\* The runs with max_iterations = 5.
CeilingInit == InitWith({5}, {3})

CeilingSpec == CeilingInit /\ [][Next]_vars

(***************************************************************************)
(* A session that calls execute_with_automation more than once: the        *)
(* 'autorun' command of interactive_session, lines 673-676.                *)
(***************************************************************************)
MaxIterSession == 1

MaxRuns == 2

SessionInit == InitWith(0..MaxIterSession, {3})

\* The caller's context update after a run, then the next 'autorun' command:
\* execute_with_automation starts again on the same analyzer.
NextCommand ==
    /\ pc = "done"
    /\ runs < MaxRuns
    /\ runs' = runs + 1
    /\ previous_run' = [summary |-> summary, stop |-> stop]
    /\ LET new_info == "Automated analysis completed in " \o ToString(iteration)
                       \o " iterations"
       IN  /\ analysis_context' = _update_context(analysis_context, new_info)
           /\ context_call' = ContextCall(analysis_context, new_info)
    /\ max_iterations' \in 0..MaxIterSession
    /\ min_iterations' = 3
    /\ iteration' = 0
    /\ current_prompt' = [kind |-> "initial"]
    /\ consecutive_failures' = 0
    /\ analysis_topics_covered' = {}
    /\ sandbox_reset_count' = 0
    /\ ai_response' = <<>>
    /\ completion_check' = NoCheck
    /\ explanation' = ""
    /\ code' = ""
    /\ logs' = ""
    /\ pc' = "loop"
    /\ stop' = "none"
    /\ summary' = NoSummary
    /\ steps' = <<>>
    /\ model_before' = 0
    /\ model_now' = FALSE
    /\ fatal_before' = 0
    /\ fatal_now' = FALSE
    /\ SessionUnchanged
    /\ UNCHANGED <<session_history, service>>

(***************************************************************************)
(* The completion oracle on its own: _check_analysis_completion called on  *)
(* any response, pass number, minimum, topic set and history.              *)
(***************************************************************************)
MaxOracleIter == 10

MaxOracleMin == 6

HistoryRecord(cd) ==
    [code |-> cd, logs |-> "", success |-> TRUE, results_count |-> results_of[cd]]

HistoryOf(codes) == [k \in DOMAIN codes |-> HistoryRecord(codes[k])]

Histories ==
    { HistoryOf(<<>>),
      HistoryOf(<<CodeDescribe, CodeDescribe, CodeDescribe>>),
      HistoryOf(<<CodeCorr, CodeDescribe, CodeDescribe, CodeDescribe>>),
      HistoryOf(<<CodeCorr, CodeDescribe, CodeNulls, CodeDescribe>>),
      HistoryOf(<<CodeDescribe, CodeDescribe, CodeDescribe, CodeCorr>>) }

OracleInit ==
    /\ sandbox = 1
    /\ live = {1}
    /\ uploads = <<1>>
    /\ current_dataset_path = TRUE
    /\ session_history \in Histories
    /\ analysis_context = ""
    /\ max_iterations = MaxOracleIter
    /\ min_iterations \in 0..MaxOracleMin
    /\ iteration \in 0..MaxOracleIter
    /\ current_prompt = [kind |-> "initial"]
    /\ consecutive_failures = 0
    /\ analysis_topics_covered \in SUBSET Topics
    /\ sandbox_reset_count = 0
    /\ ai_response \in {<<text>> : text \in OracleTexts}
    /\ completion_check = NoCheck
    /\ explanation = ""
    /\ code = ""
    /\ logs = ""
    /\ pc = "decide"
    /\ stop = "none"
    /\ summary = NoSummary
    /\ steps = <<"probe_healthy", "model">>
    /\ model_before = 0
    /\ model_now = FALSE
    /\ fatal_before = 0
    /\ fatal_now = FALSE
    /\ runs = 1
    /\ previous_run = NoRun
    /\ context_call = NoContextCall
    /\ service = AnyService

OracleNext == Decide

OracleSpec == OracleInit /\ [][OracleNext]_vars

(***************************************************************************)
(* _update_context on its own: called on any context within the cap and    *)
(* any new_info.                                                           *)
(***************************************************************************)
MaxInfoLen == 2100

RECURSIVE Fill(_, _)
\* A text of n characters made of the characters of unit.
Fill(unit, n) ==
    IF n <= Len(unit) THEN SubSeq(unit, 1, n)
    ELSE Fill(unit, n \div 2) \o Fill(unit, n - n \div 2)

ContextLengths == {0, 1, 499, 1489, 1499, 1500, 1990, 1998, 1999, 2000}

InfoLengths == {0, 1, 2, 8, 9, 10, 499, 500, 501, 1500, MaxInfoLen}

PriorContexts == {Fill("abcdefghijklmnopqrstuvwxyz", n) : n \in ContextLengths}

Infos == {Fill("0123456789", n) : n \in InfoLengths}

ContextInit ==
    /\ sandbox = 1
    /\ live = {1}
    /\ uploads = <<1>>
    /\ current_dataset_path = TRUE
    /\ session_history = <<>>
    /\ analysis_context \in PriorContexts
    /\ max_iterations = 0
    /\ min_iterations = 3
    /\ iteration = 0
    /\ current_prompt = [kind |-> "initial"]
    /\ consecutive_failures = 0
    /\ analysis_topics_covered = {}
    /\ sandbox_reset_count = 0
    /\ ai_response = <<>>
    /\ completion_check = NoCheck
    /\ explanation = ""
    /\ code = ""
    /\ logs = ""
    /\ pc = "context"
    /\ stop = "none"
    /\ summary = NoSummary
    /\ steps = <<>>
    /\ model_before = 0
    /\ model_now = FALSE
    /\ fatal_before = 0
    /\ fatal_now = FALSE
    /\ runs = 1
    /\ previous_run = NoRun
    /\ context_call = NoContextCall
    /\ service = AnyService

\* self._update_context(new_info)
UpdateContext ==
    /\ pc = "context"
    /\ \E new_info \in Infos :
          /\ analysis_context' = _update_context(analysis_context, new_info)
          /\ context_call' = ContextCall(analysis_context, new_info)
    /\ pc' = "context_done"
    /\ SessionUnchanged /\ ParamsUnchanged
    /\ UNCHANGED <<session_history, iteration, current_prompt, consecutive_failures,
                   analysis_topics_covered, sandbox_reset_count, ai_response,
                   completion_check, explanation, code, logs, stop, summary,
                   steps, model_before, model_now, fatal_before, fatal_now>>

ContextNext == UpdateContext

ContextSpec == ContextInit /\ [][ContextNext]_vars

(***************************************************************************)
(* _track_analysis_topics on its own: called twice on any explanation and  *)
(* any topic set.                                                          *)
(***************************************************************************)
TrackerInit ==
    /\ sandbox = 1
    /\ live = {1}
    /\ uploads = <<1>>
    /\ current_dataset_path = TRUE
    /\ session_history = <<>>
    /\ analysis_context = ""
    /\ max_iterations = 0
    /\ min_iterations = 3
    /\ iteration = 0
    /\ current_prompt = [kind |-> "initial"]
    /\ consecutive_failures = 0
    /\ analysis_topics_covered \in SUBSET Topics
    /\ sandbox_reset_count = 0
    /\ ai_response = <<>>
    /\ completion_check = NoCheck
    /\ explanation \in TrackerTexts
    /\ code = ""
    /\ logs = ""
    /\ pc = "track"
    /\ stop = "none"
    /\ summary = NoSummary
    /\ steps = <<>>
    /\ model_before = 0
    /\ model_now = FALSE
    /\ fatal_before = 0
    /\ fatal_now = FALSE
    /\ runs = 1
    /\ previous_run = NoRun
    /\ context_call = NoContextCall
    /\ service = AnyService

\* self._track_analysis_topics(explanation, analysis_topics_covered)
Track ==
    /\ pc \in {"track", "tracked"}
    /\ analysis_topics_covered' =
           _track_analysis_topics(explanation, analysis_topics_covered)
    /\ pc' = (IF pc = "track" THEN "tracked" ELSE "tracked_twice")
    /\ SessionUnchanged /\ ParamsUnchanged /\ ContextUnchanged
    /\ UNCHANGED <<session_history, iteration, current_prompt, consecutive_failures,
                   sandbox_reset_count, ai_response, completion_check,
                   explanation, code, logs, stop, summary, steps,
                   model_before, model_now, fatal_before, fatal_now>>

TrackerNext == Track

TrackerSpec == TrackerInit /\ [][TrackerNext]_vars

(***************************************************************************)
(* The repetition detector on any history: the oracle called where its     *)
(* verdict is the detector's (no phrase, past the minimum, no coverage,    *)
(* iteration > 8).                                                         *)
(***************************************************************************)
MaxHistory == 5

DetectorHistories ==
    UNION {{HistoryOf(codes) : codes \in [1..n -> EarlierCodes]} : n \in 0..MaxHistory}

DetectorInit ==
    /\ sandbox = 1
    /\ live = {1}
    /\ uploads = <<1>>
    /\ current_dataset_path = TRUE
    /\ session_history \in DetectorHistories
    /\ analysis_context = ""
    /\ max_iterations = MaxOracleIter
    /\ min_iterations = 3
    /\ iteration = 9
    /\ current_prompt = [kind |-> "initial"]
    /\ consecutive_failures = 0
    /\ analysis_topics_covered = {}
    /\ sandbox_reset_count = 0
    /\ ai_response = <<ReplyProse>>
    /\ completion_check = NoCheck
    /\ explanation = ""
    /\ code = ""
    /\ logs = ""
    /\ pc = "decide"
    /\ stop = "none"
    /\ summary = NoSummary
    /\ steps = <<"probe_healthy", "model">>
    /\ model_before = 0
    /\ model_now = FALSE
    /\ fatal_before = 0
    /\ fatal_now = FALSE
    /\ runs = 1
    /\ previous_run = NoRun
    /\ context_call = NoContextCall
    /\ service = AnyService

DetectorNext == Decide

DetectorSpec == DetectorInit /\ [][DetectorNext]_vars

(***************************************************************************)
(* The health probe and the recovery on their own: one pass started on any *)
(* analyzer, the service behaving in one fixed way.                        *)
(***************************************************************************)
HealthInit ==
    /\ \/ sandbox = 1 /\ live = {1} /\ uploads = <<1>> /\ current_dataset_path = TRUE
       \/ sandbox = 1 /\ live = {1} /\ uploads = <<0>> /\ current_dataset_path = FALSE
       \/ sandbox = 0 /\ live = {} /\ uploads = <<>> /\ current_dataset_path = FALSE
    /\ session_history = <<>>
    /\ analysis_context = ""
    /\ max_iterations = 1
    /\ min_iterations = 3
    /\ iteration = 1
    /\ current_prompt = [kind |-> "initial"]
    /\ consecutive_failures = 0
    /\ analysis_topics_covered = {}
    /\ sandbox_reset_count = 0
    /\ ai_response = <<>>
    /\ completion_check = NoCheck
    /\ explanation = ""
    /\ code = ""
    /\ logs = ""
    /\ pc = "health"
    /\ stop = "none"
    /\ summary = NoSummary
    /\ steps = <<>>
    /\ model_before = 0
    /\ model_now = FALSE
    /\ fatal_before = 0
    /\ fatal_now = FALSE
    /\ runs = 1
    /\ previous_run = NoRun
    /\ context_call = NoContextCall
    /\ service \in FixedServices

HealthNext ==
    \/ CheckHealth
    \/ Recover

HealthSpec == HealthInit /\ [][HealthNext]_vars

(***************************************************************************)
(* The execution of one step and what follows it: any outcome of the       *)
(* sandbox.  The failure counter is 0, as the model call leaves it.        *)
(***************************************************************************)
ClassifierInit ==
    /\ sandbox = 1 /\ live = {1} /\ uploads = <<1>> /\ current_dataset_path = TRUE
    /\ session_history = <<>>
    /\ analysis_context = ""
    /\ max_iterations = 3
    /\ min_iterations = 3
    /\ iteration \in 1..2
    /\ current_prompt = [kind |-> "initial"]
    /\ consecutive_failures = 0
    /\ analysis_topics_covered \in {{}, {"statistics"}}
    /\ sandbox_reset_count = 0
    /\ ai_response = <<ReplyProse>>
    /\ completion_check = [should_stop |-> FALSE, reason |-> "Analysis should continue"]
    /\ explanation = ""
    /\ code = CodeDescribe
    /\ logs = ""
    /\ pc = "execute"
    /\ stop = "none"
    /\ summary = NoSummary
    /\ steps = <<>>
    /\ model_before = 0
    /\ model_now = FALSE
    /\ fatal_before = 0
    /\ fatal_now = FALSE
    /\ runs = 1
    /\ previous_run = NoRun
    /\ context_call = NoContextCall
    /\ service \in ClassifierServices

ClassifierNext ==
    \/ Execute
    \/ Update

ClassifierSpec == ClassifierInit /\ [][ClassifierNext]_vars

(***************************************************************************)
(* _parse_ai_response on its own: the parsing step of a pass on any        *)
(* response.                                                               *)
(***************************************************************************)
ParserInit ==
    /\ sandbox = 1 /\ live = {1} /\ uploads = <<1>> /\ current_dataset_path = TRUE
    /\ session_history = <<>>
    /\ analysis_context = ""
    /\ max_iterations = 3
    /\ min_iterations = 3
    /\ iteration \in 1..2
    /\ current_prompt = [kind |-> "initial"]
    /\ consecutive_failures = 0
    /\ analysis_topics_covered \in {{}, {"statistics"}}
    /\ sandbox_reset_count = 0
    /\ ai_response \in {<<r>> : r \in ParserTexts \ {""}}
    /\ completion_check = [should_stop |-> FALSE, reason |-> "Analysis should continue"]
    /\ explanation = ""
    /\ code = ""
    /\ logs = ""
    /\ pc = "parse"
    /\ stop = "none"
    /\ summary = NoSummary
    /\ steps = <<"model", "oracle">>
    /\ model_before = 0
    /\ model_now = FALSE
    /\ fatal_before = 0
    /\ fatal_now = FALSE
    /\ runs = 1
    /\ previous_run = NoRun
    /\ context_call = NoContextCall
    /\ service = AnyService

ParserNext == Parse

ParserSpec == ParserInit /\ [][ParserNext]_vars

SessionNext ==
    \/ Next
    \/ NextCommand

SessionSpec == SessionInit /\ [][SessionNext]_vars


-----------------------------------------------------------------------------
\* Properties of the automation loop.

Last(seq) == seq[Len(seq)]

CoreCovered(topics_covered) == Cardinality(core_topics \cap topics_covered)

\* The position of the run as a number: the pass, then the place in the pass.
PcRank ==
    CASE pc = "health"   -> 1
      [] pc = "recover"  -> 2
      [] pc = "generate" -> 3
      [] pc = "decide"   -> 4
      [] pc = "parse"    -> 5
      [] pc = "execute"  -> 6
      [] pc = "update"   -> 7
      [] pc = "loop"     -> 8
      [] pc = "summary"  -> 8 * max_iterations + 9
      [] pc = "done"     -> 8 * max_iterations + 10

Rank == IF pc \in {"summary", "done"} THEN PcRank ELSE 8 * iteration + PcRank

\* C1: a run of execute_with_automation ends after at most max_iterations
\* passes of its loop: the pass counter never exceeds max_iterations, every
\* step moves the run strictly forward through a bounded number of positions,
\* the run is never stuck before its summary is printed, and the number of
\* steps it returns is the number of passes made, at most max_iterations.
TerminatesWithinMaxIterations ==
    /\ [](iteration <= max_iterations)
    /\ [][Rank' > Rank]_vars
    /\ [](Rank <= 8 * max_iterations + 10)
    /\ [](pc # "done" => ENABLED Next)
    /\ [](pc = "done" => /\ summary.total_steps = iteration
                         /\ summary.total_steps <= max_iterations)

\* A run that made every pass its ceiling allows, executed code, and ended.
CeilingReached ==
    /\ pc = "done"
    /\ stop = "ceiling"
    /\ max_iterations = MaxIter
    /\ summary.total_steps = max_iterations
    /\ Len(session_history) > 0


\* C5: when the executions of two consecutive passes both fail with an error
\* that _handle_execution_error does not handle, the run stops at the second:
\* it goes to its summary and starts no further pass.
StopsAtSecondFatalExecution ==
    (fatal_before >= 1 /\ fatal_now) => pc \in {"summary", "done"}

\* C6: a run stops for repeated model failure only when the model call of
\* each of its last three passes failed.
ModelStopAfterThreeFailedCalls ==
    stop = "model" => (model_now /\ model_before >= 2)

ProbeSteps == {"probe_healthy", "probe_unhealthy"}

RecoverSteps == {"recover_ok", "recover_failed"}

\* C7: every pass starts with the health probe; after an unhealthy probe
\* exactly one recovery is attempted; a failed recovery ends the loop in that
\* pass with nothing else done, going to the summary; a successful recovery
\* is followed by the model call.
HealthProbeFirst ==
    /\ pc = "health" => steps = <<>>
    /\ pc \in {"recover", "generate", "decide", "parse", "execute", "update"}
          => steps # <<>>
    /\ steps # <<>> => steps[1] \in ProbeSteps
    /\ \A k \in 2..Len(steps) : steps[k] \notin ProbeSteps
    /\ pc = "recover" <=> steps = <<"probe_unhealthy">>
    /\ \A k \in 1..Len(steps) :
          steps[k] \in RecoverSteps => (k = 2 /\ steps[1] = "probe_unhealthy")
    /\ (Len(steps) >= 2 /\ steps[1] = "probe_unhealthy") => steps[2] \in RecoverSteps
    /\ (Len(steps) >= 2 /\ steps[2] = "recover_failed")
          => /\ steps = <<"probe_unhealthy", "recover_failed">>
             /\ pc \in {"summary", "done"}
             /\ stop = "health"
    /\ stop = "health" => steps = <<"probe_unhealthy", "recover_failed">>
    /\ steps = <<"probe_unhealthy", "recover_ok">> => pc = "generate"
    /\ (Len(steps) >= 3 /\ steps[2] = "recover_ok") => steps[3] = "model"
    /\ (Len(steps) >= 2 /\ steps[1] = "probe_healthy") => steps[2] = "model"

\* A pass whose recovery failed, in a run that had executed code before.
FailedRecoveryEndsRun ==
    /\ pc = "summary"
    /\ stop = "health"
    /\ steps = <<"probe_unhealthy", "recover_failed">>
    /\ iteration >= 2
    /\ Len(session_history) > 0

\* No response of the run contained a completion phrase.  A response with a
\* phrase ends the run at once and stays in ai_response, so the last response
\* tells.
NoCompletionPhrase == ai_response = <<>> \/ signal_found[ai_response[1]] = ""

\* The topics only grow, so the final set tells whether four core topics
\* were ever covered.
FewCoreTopics == CoreCovered(analysis_topics_covered) < 4

VerdictByCoreTopics ==
    pc = "done" =>
        summary.quality = (IF CoreCovered(summary.topics) >= 4
                           THEN "Comprehensive" ELSE "Partial")


\* C9: the stop conditions are distinguishable in the summary: two runs with
\* the same summary (steps, topics, visualizations, recoveries, verdict)
\* stopped for the same condition.
SummaryTellsStopCondition ==
    (pc = "done" /\ previous_run # NoRun /\ previous_run.summary = summary)
        => previous_run.stop = stop


-----------------------------------------------------------------------------
\* Properties of the completion oracle.

\* The oracle has just been called on ai_response, iteration, min_iterations,
\* analysis_topics_covered and session_history.
OracleCalled == steps # <<>> /\ Last(steps) = "oracle"

HasCompletionPhrase == signal_found[ai_response[1]] # ""

\* The decision of the first applicable rule, in the order (1)..(5).
FirstApplicableRule ==
    IF HasCompletionPhrase THEN TRUE
    ELSE IF iteration < min_iterations THEN FALSE
    ELSE IF CoreCovered(analysis_topics_covered) >= 4 /\ iteration >= 5 THEN TRUE
    ELSE IF iteration > 8 /\ _detect_repetitive_analysis THEN TRUE
    ELSE FALSE

NoStopBelowMinimum ==
    (OracleCalled /\ iteration < min_iterations /\ ~HasCompletionPhrase)
        => ~completion_check.should_stop

\* Below the minimum with the coverage rule's condition met: no stop.
CoveredButBelowMinimum ==
    /\ OracleCalled
    /\ iteration < min_iterations /\ iteration >= 5
    /\ CoreCovered(analysis_topics_covered) >= 4
    /\ ~HasCompletionPhrase
    /\ ~completion_check.should_stop

\* C4 as stated: with 4 core topics covered and iteration >= 5 the oracle
\* stops, for every min_iterations.
CoverageStops ==
    (OracleCalled /\ CoreCovered(analysis_topics_covered) >= 4 /\ iteration >= 5)
        => completion_check.should_stop

\* C4: with 4 core topics covered, iteration >= 5 and iteration >=
\* min_iterations the oracle stops, with or without a completion phrase.
CoverageStopsAfterMinimum ==
    (/\ OracleCalled
     /\ CoreCovered(analysis_topics_covered) >= 4
     /\ iteration >= 5
     /\ iteration >= min_iterations)
        => completion_check.should_stop

\* Exactly 4 core topics at iteration 5 = min_iterations, no phrase: stop.
FourCoreTopicsStop ==
    /\ OracleCalled
    /\ CoreCovered(analysis_topics_covered) = 4
    /\ iteration = 5 /\ min_iterations = 5
    /\ ~HasCompletionPhrase
    /\ completion_check.should_stop


-----------------------------------------------------------------------------
\* Properties of the history, the context and the topics.

\* h is g with records appended at the end, the records of g untouched.
Extends(h, g) == Len(h) >= Len(g) /\ SubSeq(h, 1, Len(g)) = g

\* C11: a pass that hands code to the executor appends exactly one record to
\* the history, its success flag telling the outcome; a step that executes
\* no code appends none; records in the history are never changed or removed.
OneRecordPerExecution ==
    [][/\ Extends(session_history', session_history)
       /\ pc = "execute" =>
             /\ Len(session_history') = Len(session_history) + 1
             /\ Last(session_history').success = (Last(steps') = "exec")
       /\ pc # "execute" => session_history' = session_history]_vars


\* The buffer of the last _update_context call before trimming.
Untrimmed == context_call.before \o "\n" \o context_call.new_info

\* C12: after a call of _update_context on a context within the cap, the
\* context has at most 2000 characters, and when the untrimmed buffer had
\* more than 2000 the context is exactly its last 1500 characters.
ContextWithinCap ==
    (context_call.made /\ Len(context_call.before) <= 2000) =>
        /\ Len(analysis_context) <= 2000
        /\ Len(Untrimmed) > 2000 =>
              /\ Len(analysis_context) = 1500
              /\ analysis_context = SubSeq(Untrimmed, Len(Untrimmed) - 1499, Len(Untrimmed))

\* A call that trimmed: old content was dropped from the front.
ContextTrimmed ==
    /\ context_call.made
    /\ Len(context_call.before) = 1999
    /\ Len(context_call.new_info) = 1
    /\ Len(analysis_context) = 1500


\* C13: within a run the topic set only grows, whatever the step, and holds
\* only labels of the 8-topic vocabulary.
TopicsOnlyGrow ==
    /\ [][analysis_topics_covered \subseteq analysis_topics_covered']_vars
    /\ [](analysis_topics_covered \subseteq Topics)
    /\ [](Cardinality(Topics) = 8)

\* Two explanations tracked in one run, the second adding to the first.
TopicsOfTwoExplanations ==
    /\ iteration >= 2
    /\ Cardinality(analysis_topics_covered) = 8

\* C14: tracking the same explanation a second time leaves the topic set as
\* the first tracking made it.
TrackerIdempotent ==
    [][pc = "tracked" => analysis_topics_covered' = analysis_topics_covered]_vars

\* An explanation tracked twice, the first tracking having added topics.
TrackedTwice ==
    /\ pc = "tracked_twice"
    /\ explanation = ExplanationShout
    /\ analysis_topics_covered = topics_found[explanation] \cup {"correlations"}


-----------------------------------------------------------------------------
\* Properties of the repetition detector.

\* The oracle was called where it stops exactly when the detector says
\* repetitive.
DetectorAsked ==
    /\ OracleCalled
    /\ ~HasCompletionPhrase
    /\ iteration >= min_iterations
    /\ iteration > 8
    /\ CoreCovered(analysis_topics_covered) < 4

SaidRepetitive == completion_check.should_stop

\* Two codes share more than 10 distinct lower-cased words.
Similar(a, b) == Cardinality(words_of[a] \cap words_of[b]) > 10

\* C15: with fewer than 4 records in the history the detector says no.
NotRepetitiveBelowFour ==
    (DetectorAsked /\ Len(session_history) < 4) => ~SaidRepetitive

\* Three records with the same code: not repetitive.
ThreeSameRecords ==
    /\ DetectorAsked
    /\ Len(session_history) = 3
    /\ \A k \in 1..3 : session_history[k].code = CodeDescribe
    /\ ~SaidRepetitive

\* C16: with at least 4 records the detector says repetitive exactly when
\* some record of the last 3, in whichever position, is similar to both
\* other records of the last 3.
RepetitiveWhenOneSimilarToBoth ==
    (DetectorAsked /\ Len(session_history) >= 4) =>
        LET n == Len(session_history)
            last3 == (n - 2)..n
        IN  SaidRepetitive <=>
                \E i \in last3 : \A j \in last3 \ {i} :
                    Similar(session_history[i].code, session_history[j].code)

\* C17: with 4 records, the codes of the first two sharing at least 10
\* words, the detector says repetitive.
RepetitiveAfterFourthStep ==
    (/\ DetectorAsked
     /\ Len(session_history) = 4
     /\ Cardinality(words_of[session_history[1].code]
                    \cap words_of[session_history[2].code]) >= 10)
        => SaidRepetitive


-----------------------------------------------------------------------------
\* Properties of the health probe and the recovery.

\* The probe of this pass has just been made on a sandbox, the service fixed.
Probed == service.fixed /\ steps \in {<<"probe_healthy">>, <<"probe_unhealthy">>} /\ sandbox # 0

\* The text of the exception, compared case-insensitively, names a lost
\* sandbox or a timeout.
NamesLostSandbox(text) ==
    \/ Contains(Lower(text), "sandbox was not found")
    \/ Contains(Lower(text), "timeout")

\* C18: the probe says healthy when the no-op execution reports no error,
\* unhealthy when it reports an error or raises an exception whose text,
\* compared case-insensitively, contains 'sandbox was not found' or
\* 'timeout', and healthy for every other exception.
ProbeVerdict ==
    Probed =>
        (steps[1] = "probe_healthy") =
            CASE service.probe.kind = "ok"    -> TRUE
              [] service.probe.kind = "error" -> FALSE
              [] service.probe.kind = "raise" -> ~NamesLostSandbox(service.probe.text)

\* The recovery of this pass has been attempted, the service fixed.
RecoveryAttempted == service.fixed /\ Len(steps) = 2 /\ steps[2] \in RecoverSteps

\* What a successful recovery leaves: the newest session is the analyzer's,
\* the earlier sessions saw no further upload, and the new one saw `calls`
\* uploads.
RecoveredWithUploads(calls) ==
    /\ sandbox = Len(uploads)
    /\ sandbox \in live
    /\ \A k \in 1..(Len(uploads) - 1) : uploads[k] = (IF current_dataset_path THEN 1 ELSE 0)
    /\ uploads[sandbox] = calls

\* C19 as stated: the recovery fails only if the creation raises, succeeds
\* even when the close raises or the re-upload fails, and a successful
\* recovery has called upload exactly once on the new session when a path is
\* known, never when none is.
RecoveryUploadsOnce ==
    RecoveryAttempted =>
        /\ (steps[2] = "recover_failed") = ~service.create_ok
        /\ steps[2] = "recover_ok" =>
              RecoveredWithUploads(IF current_dataset_path THEN 1 ELSE 0)

\* C19: the recovery fails only if the creation raises, succeeds even when
\* the close raises or the re-upload fails, and a successful recovery has
\* called upload on the new session exactly once when a path is known and the
\* dataset file could be opened, and never otherwise.
RecoveryUploadsOnceIfReadable ==
    RecoveryAttempted =>
        /\ (steps[2] = "recover_failed") = ~service.create_ok
        /\ steps[2] = "recover_ok" =>
              RecoveredWithUploads(
                  IF current_dataset_path /\ service.upload # "open_fails" THEN 1 ELSE 0)

\* A recovery that succeeded although the close raised and the write of the
\* re-upload failed: one upload call on the new session.
RecoveredDespiteFailures ==
    /\ RecoveryAttempted
    /\ steps[2] = "recover_ok"
    /\ ~service.close_ok /\ service.upload = "write_fails"
    /\ current_dataset_path
    /\ uploads = <<1, 1>>


-----------------------------------------------------------------------------
\* Properties of the error classifier.

\* The pattern families, in the order they are checked.
PatternFamilies ==
    << {"sandbox was not found", "timeout"},
       {"import", "module"},
       {"file not found", "no such file"} >>

\* Some family has a pattern that occurs in the lower-cased text.
MatchesFamily(text) ==
    \E f \in DOMAIN PatternFamilies :
        \E pattern \in PatternFamilies[f] : Contains(Lower(text), pattern)

matches_family == [t \in ClassifierTexts |-> MatchesFamily(t)]

\* The execution of this step failed and the classifier was asked.
Classified == steps # <<>> /\ Last(steps) = "classify"

\* C20: a failed execution is classified recoverable exactly when its
\* lower-cased error text matches one of the pattern families; a failure
\* classified recoverable leaves the failure counter as it was and does not
\* end the run: the loop goes on to the context update and the next prompt.
ClassifierContract ==
    [][ /\ (pc = "execute" /\ Classified') =>
              /\ fatal_now' = ~matches_family[logs']
              /\ ~fatal_now' =>
                    /\ consecutive_failures' = consecutive_failures
                    /\ pc' = "update"
                    /\ stop' = stop
        /\ (pc = "update" /\ Classified /\ ~fatal_now) =>
              /\ context_call'.made
              /\ context_call'.new_info =
                    "Step " \o ToString(iteration) \o ": " \o ResultSummary(logs)
              /\ current_prompt'.kind = "next"
              /\ consecutive_failures' = consecutive_failures
              /\ pc' = "loop"
              /\ stop' = stop ]_vars

\* An execution failed on an upper-case timeout: the counter is still 0 and
\* the next prompt is ready.
RecoverableFailureGoesOn ==
    /\ service.fixed
    /\ service.exec = [kind |-> "raise", text |-> "Request TIMEOUT after 60s"]
    /\ steps = <<"exec", "classify", "context", "prompt">>
    /\ ~fatal_now
    /\ consecutive_failures = 0
    /\ pc = "loop"
    /\ current_prompt.kind = "next"


-----------------------------------------------------------------------------
\* Properties of the response parser.

\* The response of this pass has been parsed.
Parsed == steps # <<>> /\ Last(steps) \in {"parse", "track"}

\* C21: a response made of a labeled explanation and one fenced python block
\* parses to exactly that explanation and exactly that code, minus
\* surrounding whitespace, whether the explanation has one line or several.
LabeledRecovered ==
    \A c \in LabeledCases :
        (Parsed /\ ai_response = <<Labeled(c)>>) =>
            /\ explanation = Strip(c.expl)
            /\ code = Strip(c.code)

\* The text has no code fence and none of the code-like tokens.
CodeFree(text) ==
    /\ ~Contains(text, Fence)
    /\ \A keyword \in code_keywords : ~Contains(text, keyword)

code_free == [t \in ParserTexts |-> CodeFree(t)]

\* C22: a response with no code fence and none of the code-like tokens
\* parses to empty code.
NoCodeFromProse == (Parsed /\ code_free[ai_response[1]]) => code = ""

\* A labeled explanation without fence and without code-like tokens was
\* parsed: no code.
LabelOnlyGivesNoCode ==
    /\ Parsed
    /\ ai_response = <<"EXPLANATION: Nothing more to run.">>
    /\ explanation = "Nothing more to run."
    /\ code = ""
    /\ pc = "loop"

\* Some line of the text starts with the explanation marker.
HasLabeledLine(text) ==
    LET lines == SplitLines(text)
    IN  \E k \in DOMAIN lines : StartsWith(lines[k], "EXPLANATION:")

\* The format that applies first, in the order labeled, fence, code-like
\* tokens, prose.
FormatOf(text) ==
    IF HasLabeledLine(text) /\ Contains(text, FencePython) THEN "labeled"
    ELSE IF Contains(text, FencePython) THEN "fence"
    ELSE IF \E keyword \in code_keywords : Contains(text, keyword) THEN "code"
    ELSE "prose"

format_of == [t \in ParserTexts |-> FormatOf(t)]

\* The text before the first python fence.
BeforeFence(text) == SubSeq(text, 1, Find(text, FencePython, 0))

before_fence == [t \in ParserTexts |-> Strip(BeforeFence(t))]

\* C23: the parser applies the first applicable format: with a fence and no
\* labeled line the explanation is everything before the fence; with no
\* fence but code-like tokens the whole text is the code and the explanation
\* is empty; otherwise the whole text is the explanation and the code is
\* empty.
ParserPriorityOrder ==
    Parsed =>
        LET text == ai_response[1]
        IN  CASE format_of[text] = "labeled" -> TRUE
              [] format_of[text] = "fence"   -> explanation = before_fence[text]
              [] format_of[text] = "code"    -> explanation = "" /\ code = Strip(text)
              [] format_of[text] = "prose"   -> explanation = Strip(text) /\ code = ""


-----------------------------------------------------------------------------
\* Properties of the passes of the loop.

\* This pass ended at the parsing step, the response having no code.
EndedWithoutCode == pc = "loop" /\ Parsed

\* C24: in a pass whose parsed response has empty code nothing is executed,
\* no history record is appended, the failure counter is not incremented and
\* the next prompt is the fixed request for executable code; the pass has
\* used one slot of max_iterations: the next pass, if any, has the next
\* number, and there is none once max_iterations passes were made.
MissingCodeSkipsExecution ==
    [][ /\ (pc = "parse" /\ code' = "") =>
              /\ pc' = "loop"
              /\ current_prompt' = NeedCodePrompt
              /\ session_history' = session_history
              /\ consecutive_failures' = consecutive_failures
              /\ logs' = logs
              /\ iteration' = iteration
        /\ EndedWithoutCode =>
              /\ code = "" /\ ~(\E k \in DOMAIN steps : steps[k] = "exec")
              /\ IF iteration < max_iterations
                 THEN /\ iteration' = iteration + 1
                      /\ current_prompt' = NeedCodePrompt
                      /\ pc' = "health"
                 ELSE /\ iteration' = iteration
                      /\ pc' = "summary" /\ stop' = "ceiling" ]_vars

\* The run ended at the ceiling after two passes without code: nothing was
\* ever executed.
CeilingAfterMissingCode ==
    /\ pc = "done"
    /\ stop = "ceiling"
    /\ iteration = 2 /\ max_iterations = 2
    /\ current_prompt = NeedCodePrompt
    /\ session_history = <<>>
    /\ analysis_context = ""
    /\ consecutive_failures = 0


\* The calls of this pass named `call`, as positions in steps.
CallsOf(call) == {k \in DOMAIN steps : steps[k] = call}

\* C25: the verdict of the completion oracle is computed after the step: in
\* a pass where the oracle has been asked, the response was parsed (and its
\* topics tracked, its code executed) before the oracle was asked.
VerdictAfterStep ==
    \A k \in CallsOf("oracle") : \E j \in CallsOf("parse") : j < k

\* The pass before this one ended with an execution that failed on a lost
\* sandbox, and this pass has called the model.
ModelCalledAfterLostSandbox ==
    /\ current_prompt.kind = "next"
    /\ current_prompt.step = iteration
    /\ current_prompt.results = "The sandbox was not found"
    /\ CallsOf("model") # {}

\* C26: after an execution failure classified as sandbox timeout / not
\* found, a recovery of the sandbox is attempted before the model call of
\* the next pass.
RecoveryAfterLostSandbox ==
    ModelCalledAfterLostSandbox =>
        \E k \in DOMAIN steps, m \in CallsOf("model") :
            steps[k] \in RecoverSteps /\ k < m

\* The context after new_info is appended to it and the cap applied.
Appended(context, new_info) ==
    LET grown == context \o "\n" \o new_info
    IN  IF Len(grown) > 2000 THEN SubSeq(grown, Len(grown) - 1499, Len(grown)) ELSE grown

\* C27: during a run the context changes only in the passes that executed
\* code; each such pass, also when the execution failed, appends to it once:
\* the step number and at most the first 500 characters of the output or the
\* error.  Passes that end at the model call, the oracle, the parsing or the
\* recovery leave it as it was.
ContextOnlyAfterExecution ==
    [][ /\ pc = "execute" => pc' = "update" /\ CallsOf("exec")' # {}
        /\ pc = "update" =>
              /\ CallsOf("exec") # {} /\ CallsOf("context") = {}
              /\ logs # ""
              /\ analysis_context' =
                    Appended(analysis_context,
                             "Step " \o ToString(iteration) \o ": " \o
                             SubSeq(logs, 1, IF Len(logs) > 500 THEN 500 ELSE Len(logs)))
              /\ Cardinality(CallsOf("context")') = 1
              /\ pc' = "loop"
        /\ pc # "update" => analysis_context' = analysis_context ]_vars

\* Two passes executed code: the first printed more than 500 characters, the
\* second failed; the context holds one line for each.
ContextAfterOutputAndFailure ==
    /\ pc = "loop"
    /\ iteration = 2
    /\ fatal_now
    /\ Len(OutputText) > 500
    /\ analysis_context =
          "\nStep 1: " \o SubSeq(OutputText, 1, 500) \o
          "\nStep 2: ValueError: could not convert string to float"


\* The prompt of the next pass has just been synthesized.
PromptSynthesized == pc = "loop" /\ steps # <<>> /\ Last(steps) = "prompt"

\* C28: the synthesized prompt embeds step number iteration + 1 and lists as
\* remaining exactly the topics of the vocabulary that are not covered.
PromptListsVocabularyComplement ==
    PromptSynthesized =>
        /\ current_prompt.step = iteration + 1
        /\ current_prompt.completed = analysis_topics_covered
        /\ current_prompt.remaining = Topics \ analysis_topics_covered

\* C29: at every point of a run at most one sandbox session is live, and the
\* analyzer holds the newest session.
AtMostOneLiveSession ==
    /\ Cardinality(live) <= 1
    /\ sandbox = Len(uploads)

\* C30: when chat_with_ai returned the sentinel, the oracle asked in that
\* pass says stop and the run ends there, nothing parsed or executed.
SentinelStopsRun ==
    (ai_response = <<"ANALYSIS_COMPLETE">> /\ CallsOf("oracle") # {}) =>
        /\ completion_check.should_stop
        /\ stop = "oracle"
        /\ CallsOf("parse") = {} /\ CallsOf("exec") = {}

====
